---- MODULE Spec2Model ----
(***************************************************************************)
(* CRM reporting core: services, campaigns, leads, contract history       *)
(* (ActiveClient) and contracts, with soft deletion and restoration, the   *)
(* deletion guards and physical deletion, the lead status life cycle, the *)
(* leads' contact data and its uniqueness, the customer activation         *)
(* service (sequential and under concurrent requests), a campaign's        *)
(* deletion concurrent with the capture of a lead, and the campaign        *)
(* statistics selectors with the cache of the detail statistics page.      *)
(*                                                                         *)
(* Money is kept in whole currency units (the DecimalField values of the   *)
(* fixtures are whole); ratios are kept as exact reduced fractions.        *)
(***************************************************************************)
EXTENDS Integers, Sequences, FiniteSets, TLC

\* ------------------------------------------------------------------------
\* Bounds of the model
\* ------------------------------------------------------------------------
MaxLeads == 2
MaxContracts == 2

\* ------------------------------------------------------------------------
\* Entity attributes
\* ------------------------------------------------------------------------
\* PotentialClient.Status (TextChoices)
Status == {"NEW", "IN_PROGRESS", "CONVERTED", "LOST"}

\* ad_campaign is a nullable foreign key: 0 stands for NULL
NoCampaign == 0

\* Service (product) rows are keyed by name
ServiceIds == {"s1", "s2"}

ContractIds == 1..MaxContracts

\* LeadStatusFilterForm.STATUS_CHOICES
StatusFilters == {"", "active", "archived", "in_work"}

\* Values a caller may put in the <status> URL segment of the status endpoint
RequestedStatuses == Status \cup {"BOGUS"}

\* deleted_at: NULL, or the timezone.now() of the soft deletion
NullTime == "null"

Now == "now"

VARIABLES
    services,   \* Service rows: name -> [is_deleted, deleted_at]
    campaigns,  \* AdCampaign rows: pk -> [service, budget, is_deleted, deleted_at]
    contracts,  \* Contract rows: pk -> [service, amount, is_deleted, deleted_at]
    leads,      \* PotentialClient rows, pk = index:
                \*   [status, ad_campaign, email, phone, is_deleted, deleted_at, gone]
                \*   (gone: the row was physically deleted; its pk is not reused)
    history,    \* ActiveClient rows, pk = index:
                \*   [potential_client, contract, is_deleted, deleted_at]
    last,       \* the last request served and its outcome
    procs,      \* activation requests in flight, one per worker
    generated,  \* history variable: the campaigns that a lead row has
                \*   referenced at some time (written by the lead forms only)
    cache,      \* django.core.cache: key -> [data, age], age in seconds
    page,       \* the last detail-statistics page served
    since_write, \* history variable: seconds since the last write to the store
    fresh,      \* history variable: the cache keys set since the last write
    used        \* history variable: the contracts an activation has linked

vars == <<services, campaigns, contracts, leads, history, last, procs, generated,
          cache, page, since_write, fresh, used>>

\* the tables
Store == <<services, campaigns, contracts, leads, history>>

\* a step that changes a table restarts the clock of the last write, and
\* no cache entry has been set since; the contract of an inserted
\* ActiveClient row has been used in an activation
Stamp ==
    /\ since_write' = IF Store' = Store THEN since_write ELSE 0
    /\ fresh' = IF Store' = Store THEN fresh ELSE {}
    /\ used' = used \cup {history'[e].contract : e \in DOMAIN history' \ DOMAIN history}

\* a cache without entries
EmptyCache == [key \in {} |-> 0]

\* no detail-statistics page has been served yet
NoPage == [campaign |-> 0, status |-> "", source |-> "none",
           data |-> [leads_list |-> <<>>, total_leads |-> 0, total_active_clients |-> 0,
                     total_revenue |-> 0,
                     profit |-> [kind |-> "null", num |-> 0, den |-> 1]]]

\* Contract fixtures: services alternate so that both matching and
\* non-matching contracts exist for each campaign.
ContractService(k) == IF k % 2 = 1 THEN "s1" ELSE "s2"

ContractAmount(k) == IF k = 1 THEN 1500 ELSE IF k = 2 THEN 500 ELSE 250 * k

\* the AdCampaign rows present in the table
CampaignIds == DOMAIN campaigns

\* the PotentialClient rows present in the table
LeadIds == {l \in DOMAIN leads : ~leads[l].gone}

\* what is left of an ActiveClient row after its physical deletion (the pk
\* is not reused)
GoneEntry == [potential_client |-> 0, contract |-> 0, is_deleted |-> TRUE,
              deleted_at |-> NullTime]

\* the ActiveClient rows present in the table
EntryIds == {e \in DOMAIN history : history[e] # GoneEntry}

\* ------------------------------------------------------------------------
\* Managers: `objects` hides soft-deleted rows, `all_objects` does not
\* ------------------------------------------------------------------------
\* SoftDeleteManager.get_queryset for each model
LeadObjects == {l \in LeadIds : ~leads[l].is_deleted}

ActiveClientObjects == {e \in EntryIds : ~history[e].is_deleted}

AdCampaignObjects == {c \in CampaignIds : ~campaigns[c].is_deleted}

ServiceObjects == {s \in DOMAIN services : ~services[s].is_deleted}

ContractObjects == {k \in DOMAIN contracts : ~contracts[k].is_deleted}

\* BaseModel.all_objects
ActiveClientAllObjects == EntryIds

PotentialClientAllObjects == LeadIds

ContractAllObjects == DOMAIN contracts

ServiceAllObjects == DOMAIN services

\* lead.contracts_history: the reverse manager is built on the default
\* manager (SoftDeleteManager), so soft-deleted entries are not in it.
ContractsHistory(l) == {e \in ActiveClientObjects : history[e].potential_client = l}

Min(S) == CHOOSE x \in S : \A y \in S : x <= y

\* PotentialClient.active_contract: first non-deleted entry (pk order), 0 if none
ActiveContract(l) ==
    LET S == {e \in ContractsHistory(l) : ~history[e].is_deleted}
    IN  IF S = {} THEN 0 ELSE Min(S)

\* contract.active_client: the reverse one-to-one accessor reads through the
\* base manager, so a soft-deleted entry is found as well.
ContractActiveClient(k) == {e \in EntryIds : history[e].contract = k}

\* ------------------------------------------------------------------------
\* Soft deletion (BaseModel)
\* ------------------------------------------------------------------------
\* Variant: restore() that resets the flag and keeps the stamp
restore_keepStamp(row) == [row EXCEPT !.is_deleted = FALSE]

\* BaseModel.restore: the field assignments written by save()
restore(row) == [row EXCEPT !.is_deleted = FALSE, !.deleted_at = NullTime]

\* BaseModel.soft_delete: the field assignments written by save()
soft_delete(row) == [row EXCEPT !.is_deleted = TRUE, !.deleted_at = Now]

\* a freshly inserted ActiveClient row
NewEntry(l, k) ==
    [potential_client |-> l, contract |-> k, is_deleted |-> FALSE, deleted_at |-> NullTime]

\* the campaigns referenced by the lead rows ls
Referenced(ls) == {ls[l].ad_campaign : l \in DOMAIN ls} \ {NoCampaign}

\* a worker that serves no activation request
Idle == [pc |-> "idle", path |-> "none", lead |-> 0, contract |-> 0,
         seen_status |-> "NEW", result |-> "none"]

Workers == {1, 2}

\* ------------------------------------------------------------------------
\* Initial state: the two campaigns and the contracts of the fixtures exist,
\* no lead has been captured yet.
\* ------------------------------------------------------------------------
Init ==
    /\ services = [s \in ServiceIds |-> [is_deleted |-> FALSE, deleted_at |-> NullTime]]
    /\ campaigns = [c \in {1, 2} |->
                      IF c = 1 THEN [service |-> "s1", budget |-> 1000,
                                     is_deleted |-> FALSE, deleted_at |-> NullTime]
                               ELSE [service |-> "s2", budget |-> 0,
                                     is_deleted |-> FALSE, deleted_at |-> NullTime]]
    /\ contracts = [k \in ContractIds |->
                      [service |-> ContractService(k), amount |-> ContractAmount(k),
                       is_deleted |-> FALSE, deleted_at |-> NullTime]]
    /\ leads = <<>>
    /\ history = <<>>
    /\ last = [op |-> "init", result |-> "ok"]
    /\ procs = [w \in Workers |-> Idle]
    /\ generated = Referenced(leads)
    /\ cache = EmptyCache
    /\ page = NoPage
    /\ since_write = 0
    /\ fresh = {}
    /\ used = {history[e].contract : e \in DOMAIN history}

\* ------------------------------------------------------------------------
\* Contact data of a lead: the form's checks and the table's constraints
\* ------------------------------------------------------------------------
\* the addresses posted in the scenarios; the last one belongs to a user
Emails == {"a@x.io", "A@x.io", "b@x.io", "staff@x.io"}

\* User.objects: the addresses of the employees
UserEmails == {"staff@x.io"}

\* phone = NULL (the form turns a blank field into None)
NullPhone == "null"

\* the phones posted in the scenarios: none, and one number written in two
\* ways
Phones == {NullPhone, "+375 29 123-45-67", "+375291234567"}

\* the address the n-th lead is captured with when nothing else is said
FreshEmail(n) == "lead" \o ToString(n) \o "@x.io"

\* the case folding of the __iexact lookup
Lower(email) == IF email = "A@x.io" THEN "a@x.io" ELSE email

\* phonenumbers.parse and format_number(..., E164)
E164(phone) == IF phone = "+375 29 123-45-67" THEN "+375291234567" ELSE phone

\* PotentialClient.save: a phone is stored in E.164
SavedPhone(phone) == IF phone = NullPhone THEN NullPhone ELSE E164(phone)

\* instance.pk of a form that creates
NoLead == 0

\* PotentialClientForm.clean_email and clean_phone for the instance pk
\* (NoLead on creation): the lookups go through `objects`
LeadFormOutcome(pk, email, phone) ==
    IF \E l \in LeadObjects \ {pk} : Lower(leads[l].email) = Lower(email)
    THEN "email_taken"
    ELSE IF \E u \in UserEmails : Lower(u) = Lower(email) THEN "email_of_user"
    ELSE IF phone # NullPhone
            /\ \E l \in LeadObjects \ {pk} : leads[l].phone = E164(phone)
    THEN "phone_taken"
    ELSE "ok"

\* unique_active_lead_email and unique_active_lead_phone (condition
\* is_deleted=False) for the row about to be written under pk; NULL phones
\* never collide
LeadUniqueViolation(pk, row) ==
    /\ ~row.is_deleted
    /\ \E l \in LeadIds \ {pk} :
          /\ ~leads[l].is_deleted
          /\ \/ leads[l].email = row.email
             \/ row.phone # NullPhone /\ leads[l].phone = row.phone

\* ------------------------------------------------------------------------
\* Lead operations
\* ------------------------------------------------------------------------
\* LeadCreateView: status takes the model default NEW
\* and the form is posted with an address and a phone (or none)
LeadCreateForm(c, email, phone) ==
    /\ Len(leads) < MaxLeads
    /\ c \in AdCampaignObjects \cup {NoCampaign}
    /\ LET r == LeadFormOutcome(NoLead, email, phone)
       IN  /\ last' = [op |-> "lead_create", result |-> r]
           /\ IF r = "ok"
              THEN /\ leads' = Append(leads,
                                   [status |-> "NEW", ad_campaign |-> c, email |-> email,
                                    phone |-> SavedPhone(phone), is_deleted |-> FALSE,
                                    deleted_at |-> NullTime, gone |-> FALSE])
                   /\ generated' = generated \cup ({c} \ {NoCampaign})
              ELSE UNCHANGED <<leads, generated>>
    /\ UNCHANGED <<services, campaigns, contracts, history, procs, cache, page>>
    /\ Stamp

\* LeadCreateView posted with an address nobody uses and without phone
LeadCreate(c) == LeadCreateForm(c, FreshEmail(Len(leads) + 1), NullPhone)

\* Variant: a form that also carries the status field, posted with NEW
LeadUpdate_withStatus(l, c) ==
    /\ l \in LeadObjects
    /\ c \in AdCampaignObjects \cup {NoCampaign}
    /\ c # leads[l].ad_campaign
    /\ leads' = [leads EXCEPT ![l].ad_campaign = c, ![l].status = "NEW"]
    /\ last' = [op |-> "lead_update", result |-> "ok"]
    /\ generated' = generated \cup ({c} \ {NoCampaign})
    /\ UNCHANGED <<services, campaigns, contracts, history, procs, cache, page>>
    /\ Stamp

\* LeadUpdateView with PotentialClientForm: the form edits the campaign
\* reference (and contact fields), never the status
LeadUpdateForm(l, c, email, phone) ==
    /\ l \in LeadObjects
    /\ c \in AdCampaignObjects \cup {NoCampaign}
    /\ LET r == LeadFormOutcome(l, email, phone)
       IN  /\ last' = [op |-> "lead_update", result |-> r]
           /\ IF r = "ok"
              THEN /\ leads' = [leads EXCEPT ![l].ad_campaign = c, ![l].email = email,
                                             ![l].phone = SavedPhone(phone)]
                   /\ generated' = generated \cup ({c} \ {NoCampaign})
              ELSE UNCHANGED <<leads, generated>>
    /\ UNCHANGED <<services, campaigns, contracts, history, procs, cache, page>>
    /\ Stamp

\* LeadUpdateView posted with another campaign and the contact fields as
\* they are
LeadUpdate(l, c) ==
    /\ l \in LeadObjects
    /\ c # leads[l].ad_campaign
    /\ LeadUpdateForm(l, c, leads[l].email, leads[l].phone)

\* BaseModel.soft_delete on a lead row
LeadSoftDelete(l) ==
    /\ l \in LeadObjects
    /\ leads' = [leads EXCEPT ![l] = soft_delete(leads[l])]
    /\ last' = [op |-> "lead_soft_delete", result |-> "ok"]
    /\ UNCHANGED <<services, campaigns, contracts, history, procs, generated, cache, page>>
    /\ Stamp

\* LeadDeleteView.form_valid: soft delete guarded by the history check
LeadDeleteView(l) ==
    /\ l \in LeadObjects
    /\ IF \E e \in ActiveClientAllObjects : history[e].potential_client = l
       THEN /\ leads' = leads
            /\ last' = [op |-> "lead_delete_view", result |-> "protected"]
       ELSE /\ leads' = [leads EXCEPT ![l] = soft_delete(leads[l])]
            /\ last' = [op |-> "lead_delete_view", result |-> "ok"]
    /\ UNCHANGED <<services, campaigns, contracts, history, procs, generated, cache, page>>
    /\ Stamp

\* Variant: the requested value stored without the test against the choices
UpdateLeadStatus_unchecked(l, s) ==
    /\ l \in LeadObjects
    /\ leads' = [leads EXCEPT ![l].status = s]
    /\ last' = [op |-> "update_status", result |-> "ok"]
    /\ UNCHANGED <<services, campaigns, contracts, history, procs, generated, cache, page>>
    /\ Stamp

\* UpdateLeadStatusView.post
UpdateLeadStatus(l, s) ==
    /\ l \in LeadObjects
    /\ IF s \in Status
       THEN /\ leads' = [leads EXCEPT ![l].status = s]
            /\ last' = [op |-> "update_status", result |-> "ok"]
       ELSE /\ leads' = leads
            /\ last' = [op |-> "update_status", result |-> "invalid_status"]
    /\ UNCHANGED <<services, campaigns, contracts, history, procs, generated, cache, page>>
    /\ Stamp

\* Variant: restore() on a table without the two unique constraints
LeadRestore_unconstrained(l) ==
    /\ l \in PotentialClientAllObjects
    /\ leads' = [leads EXCEPT ![l] = restore(leads[l])]
    /\ last' = [op |-> "lead_restore", result |-> "ok"]
    /\ UNCHANGED <<services, campaigns, contracts, history, procs, generated, cache, page>>
    /\ Stamp

\* BaseModel.restore on a lead row: the save() fails with IntegrityError
\* when the restored row collides with a non-deleted one
LeadRestore(l) ==
    /\ l \in PotentialClientAllObjects
    /\ IF LeadUniqueViolation(l, restore(leads[l]))
       THEN /\ leads' = leads
            /\ last' = [op |-> "lead_restore", result |-> "integrity_error"]
       ELSE /\ leads' = [leads EXCEPT ![l] = restore(leads[l])]
            /\ last' = [op |-> "lead_restore", result |-> "ok"]
    /\ UNCHANGED <<services, campaigns, contracts, history, procs, generated, cache, page>>
    /\ Stamp

\* what is left of a PotentialClient row after its physical deletion
GoneLead == [status |-> "NEW", ad_campaign |-> NoCampaign, email |-> "", phone |-> NullPhone,
             is_deleted |-> FALSE, deleted_at |-> NullTime, gone |-> TRUE]

\* lead.delete(): the pre_delete receiver prevent_hard_delete_lead_with_history
\* raises ProtectedError when the lead has any entry, else the row goes
LeadHardDelete(l) ==
    /\ l \in PotentialClientAllObjects
    /\ IF \E e \in ActiveClientAllObjects : history[e].potential_client = l
       THEN /\ leads' = leads
            /\ last' = [op |-> "lead_hard_delete", result |-> "protected"]
       ELSE /\ leads' = [leads EXCEPT ![l] = GoneLead]
            /\ last' = [op |-> "lead_hard_delete", result |-> "ok"]
    /\ UNCHANGED <<services, campaigns, contracts, history, procs, generated, cache, page>>
    /\ Stamp

\* ------------------------------------------------------------------------
\* Campaign, contract and service deletion
\* ------------------------------------------------------------------------
\* PotentialClient.all_objects.filter(ad_campaign=campaign)
ProtectedLeads(c) == {l \in PotentialClientAllObjects : leads[l].ad_campaign = c}

\* BaseModel.soft_delete on a campaign row
CampaignSoftDelete(c) ==
    /\ c \in CampaignIds
    /\ campaigns' = [campaigns EXCEPT ![c] = soft_delete(campaigns[c])]
    /\ last' = [op |-> "campaign_soft_delete", result |-> "ok"]
    /\ UNCHANGED <<services, contracts, leads, history, procs, generated, cache, page>>
    /\ Stamp

\* BaseModel.restore on a campaign row
CampaignRestore(c) ==
    /\ c \in CampaignIds
    /\ campaigns' = [campaigns EXCEPT ![c] = restore(campaigns[c])]
    /\ last' = [op |-> "campaign_restore", result |-> "ok"]
    /\ UNCHANGED <<services, contracts, leads, history, procs, generated, cache, page>>
    /\ Stamp

\* AdCampaignDeleteView.form_valid: soft delete unless a lead references it
AdCampaignDeleteView(c) ==
    /\ c \in AdCampaignObjects
    /\ IF ProtectedLeads(c) # {}
       THEN /\ campaigns' = campaigns
            /\ last' = [op |-> "campaign_delete_view", result |-> "protected"]
       ELSE /\ campaigns' = [campaigns EXCEPT ![c] = soft_delete(campaigns[c])]
            /\ last' = [op |-> "campaign_delete_view", result |-> "ok"]
    /\ UNCHANGED <<services, contracts, leads, history, procs, generated, cache, page>>
    /\ Stamp

\* prevent_hard_delete_adcampaign_with_leads: the leads that block
HardDeleteBlockers(c) == ProtectedLeads(c)

\* campaign.delete(): the pre_delete receiver raises ProtectedError when a
\* lead references the campaign; else the row goes (the leads' references
\* would be set to NULL, and the guard has just found none)
CampaignHardDelete(c) ==
    /\ c \in CampaignIds
    /\ IF HardDeleteBlockers(c) # {}
       THEN /\ UNCHANGED <<campaigns, leads>>
            /\ last' = [op |-> "campaign_hard_delete", result |-> "protected"]
       ELSE /\ campaigns' = [x \in CampaignIds \ {c} |-> campaigns[x]]
            /\ leads' = [l \in DOMAIN leads |->
                            IF leads[l].ad_campaign = c
                            THEN [leads[l] EXCEPT !.ad_campaign = NoCampaign]
                            ELSE leads[l]]
            /\ last' = [op |-> "campaign_hard_delete", result |-> "ok"]
    /\ UNCHANGED <<services, contracts, history, procs, generated, cache, page>>
    /\ Stamp

\* BaseModel.soft_delete on a contract row
ContractSoftDelete(k) ==
    /\ k \in ContractAllObjects
    /\ contracts' = [contracts EXCEPT ![k] = soft_delete(contracts[k])]
    /\ last' = [op |-> "contract_soft_delete", result |-> "ok"]
    /\ UNCHANGED <<services, campaigns, leads, history, procs, generated, cache, page>>
    /\ Stamp

\* BaseModel.restore on a contract row
ContractRestore(k) ==
    /\ k \in ContractAllObjects
    /\ contracts' = [contracts EXCEPT ![k] = restore(contracts[k])]
    /\ last' = [op |-> "contract_restore", result |-> "ok"]
    /\ UNCHANGED <<services, campaigns, leads, history, procs, generated, cache, page>>
    /\ Stamp

\* ContractDeleteView.form_valid: soft delete unless the contract backs an
\* entry that is not soft-deleted
ContractDeleteView(k) ==
    /\ k \in ContractObjects
    /\ IF \E e \in ContractActiveClient(k) : ~history[e].is_deleted
       THEN /\ contracts' = contracts
            /\ last' = [op |-> "contract_delete_view", result |-> "protected"]
       ELSE /\ contracts' = [contracts EXCEPT ![k] = soft_delete(contracts[k])]
            /\ last' = [op |-> "contract_delete_view", result |-> "ok"]
    /\ UNCHANGED <<services, campaigns, leads, history, procs, generated, cache, page>>
    /\ Stamp

\* BaseModel.soft_delete on a service row
ServiceSoftDelete(sv) ==
    /\ sv \in ServiceAllObjects
    /\ services' = [services EXCEPT ![sv] = soft_delete(services[sv])]
    /\ last' = [op |-> "service_soft_delete", result |-> "ok"]
    /\ UNCHANGED <<campaigns, contracts, leads, history, procs, generated, cache, page>>
    /\ Stamp

\* BaseModel.restore on a service row
ServiceRestore(sv) ==
    /\ sv \in ServiceAllObjects
    /\ services' = [services EXCEPT ![sv] = restore(services[sv])]
    /\ last' = [op |-> "service_restore", result |-> "ok"]
    /\ UNCHANGED <<campaigns, contracts, leads, history, procs, generated, cache, page>>
    /\ Stamp

\* ServiceDeleteView.form_valid: soft delete unless a non-deleted campaign
\* promotes the service
ServiceDeleteView(sv) ==
    /\ sv \in ServiceObjects
    /\ IF \E c \in AdCampaignObjects : campaigns[c].service = sv
       THEN /\ services' = services
            /\ last' = [op |-> "service_delete_view", result |-> "protected"]
       ELSE /\ services' = [services EXCEPT ![sv] = soft_delete(services[sv])]
            /\ last' = [op |-> "service_delete_view", result |-> "ok"]
    /\ UNCHANGED <<campaigns, contracts, leads, history, procs, generated, cache, page>>
    /\ Stamp

\* prevent_hard_delete_contract_in_use: the contract backs an entry (found
\* through the reverse one-to-one accessor) that is not soft-deleted
ContractInUse(k) == \E e \in ContractActiveClient(k) : ~history[e].is_deleted

\* contract.delete(): the collector gathers the entry of the contract
\* (on_delete=CASCADE, base manager, so a soft-deleted one as well), the
\* pre_delete receiver raises ProtectedError when ContractInUse, else the
\* entry row and the contract row go
ContractHardDelete(k) ==
    /\ k \in ContractAllObjects
    /\ IF ContractInUse(k)
       THEN /\ UNCHANGED <<contracts, history>>
            /\ last' = [op |-> "contract_hard_delete", result |-> "protected"]
       ELSE /\ history' = [e \in DOMAIN history |->
                              IF history[e].contract = k THEN GoneEntry
                              ELSE history[e]]
            /\ contracts' = [x \in ContractAllObjects \ {k} |-> contracts[x]]
            /\ last' = [op |-> "contract_hard_delete", result |-> "ok"]
    /\ UNCHANGED <<services, campaigns, leads, procs, generated, cache, page>>
    /\ Stamp

\* Variant: the receiver asking for every campaign of the service
BlockingCampaigns_all(sv) == {c \in CampaignIds : campaigns[c].service = sv}

\* prevent_hard_delete_service_with_campaigns:
\* instance.ad_campaigns.filter(is_deleted=False)
BlockingCampaigns(sv) == {c \in AdCampaignObjects : campaigns[c].service = sv}

\* the outcome of service.delete(). The collector first gathers the
\* dependents: a contract of the service (on_delete=PROTECT, base manager)
\* raises ProtectedError there. Then the pre_delete receivers run, those of
\* the cascaded campaigns (all of them, soft-deleted ones included) before
\* the one of the service; any of them raising leaves every row in place.
ServiceDeleteOutcome(sv) ==
    IF \E k \in ContractAllObjects : contracts[k].service = sv
    THEN "protected_by_contracts"
    ELSE IF \E c \in CampaignIds : campaigns[c].service = sv /\ HardDeleteBlockers(c) # {}
    THEN "protected_by_leads"
    ELSE IF BlockingCampaigns(sv) # {} THEN "protected_by_campaigns"
    ELSE "ok"

\* service.delete(): on success the service row and, by cascade, its
\* campaigns (soft-deleted and unreferenced by then) go
ServiceHardDelete(sv) ==
    /\ sv \in ServiceAllObjects
    /\ LET r == ServiceDeleteOutcome(sv)
       IN  /\ last' = [op |-> "service_hard_delete", result |-> r]
           /\ IF r = "ok"
              THEN /\ services' = [x \in ServiceAllObjects \ {sv} |-> services[x]]
                   /\ campaigns' = [c \in {x \in CampaignIds : campaigns[x].service # sv}
                                       |-> campaigns[c]]
              ELSE UNCHANGED <<services, campaigns>>
    /\ UNCHANGED <<contracts, leads, history, procs, generated, cache, page>>
    /\ Stamp

\* ------------------------------------------------------------------------
\* pre_save receiver of ActiveClient
\* ------------------------------------------------------------------------
\* instance.pk of an entry that has not been inserted yet
NoPk == 0

\* Variant: the receiver keyed on the new value alone, without the stored one
StatusAfterEntrySave_noEdge(e, newDeleted) ==
    IF e = NoPk THEN leads
    ELSE IF newDeleted /\ leads[history[e].potential_client].status = "CONVERTED"
         THEN [leads EXCEPT ![history[e].potential_client].status = "IN_PROGRESS"]
    ELSE leads

\* Variant: the receiver without the test of the lead's status
StatusAfterEntrySave_anyStatus(e, newDeleted) ==
    IF e = NoPk THEN leads
    ELSE IF e \notin ActiveClientObjects THEN leads
    ELSE IF ~history[e].is_deleted /\ newDeleted
         THEN [leads EXCEPT ![history[e].potential_client].status = "IN_PROGRESS"]
    ELSE leads

\* update_lead_status_on_deactivation, for a save of the entry with pk e
\* (NoPk on creation) whose in-memory is_deleted is newDeleted; the stored
\* row is fetched through `objects`, which does not find a deleted one
StatusAfterEntrySave(e, newDeleted) ==
    IF e = NoPk THEN leads
    ELSE IF e \notin ActiveClientObjects THEN leads
    ELSE IF ~history[e].is_deleted /\ newDeleted
            /\ leads[history[e].potential_client].status = "CONVERTED"
         THEN [leads EXCEPT ![history[e].potential_client].status = "IN_PROGRESS"]
    ELSE leads

\* ------------------------------------------------------------------------
\* Customer activation service
\* ------------------------------------------------------------------------
\* Variant: the contract check counting the non-deleted entries only, and
\* no unique index behind it
ActivateOutcome_liveEntries(l, k) ==
    IF leads[l].status = "CONVERTED" THEN "already_active"
    ELSE IF \E e \in ActiveClientObjects : history[e].contract = k THEN "contract_taken"
    ELSE IF leads[l].ad_campaign # NoCampaign
            /\ campaigns[leads[l].ad_campaign].service # contracts[k].service
         THEN "service_mismatch"
    ELSE "ok"

\* Variant: the service check placed before the contract check
ActivateOutcome_serviceFirst(l, k) ==
    IF leads[l].status = "CONVERTED" THEN "already_active"
    ELSE IF leads[l].ad_campaign # NoCampaign
            /\ campaigns[leads[l].ad_campaign].service # contracts[k].service
         THEN "service_mismatch"
    ELSE IF ContractActiveClient(k) # {} THEN "contract_taken"
    ELSE IF \E e \in EntryIds : history[e].contract = k THEN "integrity_error"
    ELSE "ok"

\* The business-rule checks of activate_customer, in source order, followed
\* by the unique constraint of the one-to-one contract column on insert.
ActivateOutcome(l, k) ==
    IF leads[l].status = "CONVERTED" THEN "already_active"
    ELSE IF ContractActiveClient(k) # {} THEN "contract_taken"
    ELSE IF leads[l].ad_campaign # NoCampaign
            /\ campaigns[leads[l].ad_campaign].service # contracts[k].service
         THEN "service_mismatch"
    ELSE IF \E e \in EntryIds : history[e].contract = k THEN "integrity_error"
    ELSE "ok"

\* activate_customer inside transaction.atomic: either both writes or none
ActivateCustomer(l, k) ==
    /\ l \in LeadObjects
    /\ k \in ContractObjects
    /\ LET r == ActivateOutcome(l, k)
       IN  /\ last' = [op |-> "activate", result |-> r]
           /\ IF r = "ok"
              THEN /\ history' = Append(history, [potential_client |-> l, contract |-> k,
                                                  is_deleted |-> FALSE,
                                                  deleted_at |-> NullTime])
                   /\ leads' = [StatusAfterEntrySave(NoPk, FALSE)
                                   EXCEPT ![l].status = "CONVERTED"]
              ELSE UNCHANGED <<history, leads>>
    /\ UNCHANGED <<services, campaigns, contracts, procs, generated, cache, page>>
    /\ Stamp

\* ------------------------------------------------------------------------
\* Deactivation
\* ------------------------------------------------------------------------
\* Variant: a deactivation that leaves the lead's status alone
DeactivateClient_keepStatus(e) ==
    /\ e \in ActiveClientObjects
    /\ leads' = leads
    /\ history' = [history EXCEPT ![e] = soft_delete(history[e])]
    /\ last' = [op |-> "deactivate", result |-> "ok"]
    /\ UNCHANGED <<services, campaigns, contracts, procs, generated, cache, page>>
    /\ Stamp

\* ActiveClientDeleteView.form_valid: soft_delete() and the pre_save receiver
DeactivateClient(e) ==
    /\ e \in ActiveClientObjects
    /\ leads' = StatusAfterEntrySave(e, TRUE)
    /\ history' = [history EXCEPT ![e] = soft_delete(history[e])]
    /\ last' = [op |-> "deactivate", result |-> "ok"]
    /\ UNCHANGED <<services, campaigns, contracts, procs, generated, cache, page>>
    /\ Stamp

\* BaseModel.soft_delete called on an ActiveClient instance in hand, whose
\* stored row may be soft-deleted already (stale instance, all_objects)
ActiveClientSoftDelete(e) ==
    /\ e \in ActiveClientAllObjects
    /\ leads' = StatusAfterEntrySave(e, TRUE)
    /\ history' = [history EXCEPT ![e] = soft_delete(history[e])]
    /\ last' = [op |-> "entry_soft_delete", result |-> "ok"]
    /\ UNCHANGED <<services, campaigns, contracts, procs, generated, cache, page>>
    /\ Stamp

\* Variant: a restore that also sets the lead back to CONVERTED
ActiveClientRestore_reconverting(e) ==
    /\ e \in ActiveClientAllObjects
    /\ leads' = [leads EXCEPT ![history[e].potential_client].status = "CONVERTED"]
    /\ history' = [history EXCEPT ![e] = restore(history[e])]
    /\ last' = [op |-> "entry_restore", result |-> "ok"]
    /\ UNCHANGED <<services, campaigns, contracts, procs, generated, cache, page>>
    /\ Stamp

\* BaseModel.restore called on an ActiveClient instance
ActiveClientRestore(e) ==
    /\ e \in ActiveClientAllObjects
    /\ leads' = StatusAfterEntrySave(e, FALSE)
    /\ history' = [history EXCEPT ![e] = restore(history[e])]
    /\ last' = [op |-> "entry_restore", result |-> "ok"]
    /\ UNCHANGED <<services, campaigns, contracts, procs, generated, cache, page>>
    /\ Stamp

\* ActiveClientUpdateForm: the free contracts and the entry's own one
UpdateFormContracts(e) ==
    {k \in ContractObjects : ContractActiveClient(k) = {} \/ k = history[e].contract}

\* ActiveClientUpdateView: re-link the entry to another contract
ActiveClientUpdate(e, k) ==
    /\ e \in ActiveClientObjects
    /\ k \in UpdateFormContracts(e)
    /\ k # history[e].contract
    /\ leads' = StatusAfterEntrySave(e, history[e].is_deleted)
    /\ history' = [history EXCEPT ![e].contract = k]
    /\ last' = [op |-> "entry_update", result |-> "ok"]
    /\ UNCHANGED <<services, campaigns, contracts, procs, generated, cache, page>>
    /\ Stamp

\* ------------------------------------------------------------------------
\* Decimal arithmetic
\* ------------------------------------------------------------------------
RECURSIVE GCD(_, _)
GCD(a, b) == IF b = 0 THEN a ELSE GCD(b, a % b)

\* SQL NULL / Python None for a ratio
NullRatio == [kind |-> "null", num |-> 0, den |-> 1]

DivisionError == [kind |-> "error", num |-> 0, den |-> 1]

\* (revenue / budget) * 100 as an exact fraction in lowest terms; a zero
\* divisor raises (ZeroDivisionError in Python, an error in the database).
PercentOf(revenue, budget) ==
    IF budget = 0 THEN DivisionError
    ELSE LET n == revenue * 100
             g == GCD(n, budget)
         IN  [kind |-> "value", num |-> n \div g, den |-> budget \div g]

\* ------------------------------------------------------------------------
\* List aggregation: get_campaigns_with_stats
\* ------------------------------------------------------------------------
\* The joins the annotations add to the campaign query: campaign LEFT JOIN
\* lead LEFT JOIN activeclient (LEFT JOIN contract). Joins go to the tables,
\* not through the managers; 0 stands for the NULLs of an unmatched join.
JoinRows(c) ==
    LET ls == {l \in LeadIds : leads[l].ad_campaign = c}
        es(l) == {e \in EntryIds : history[e].potential_client = l}
    IN  IF ls = {} THEN {[lead |-> 0, ac |-> 0]}
        ELSE UNION {IF es(l) = {} THEN {[lead |-> l, ac |-> 0]}
                    ELSE {[lead |-> l, ac |-> e] : e \in es(l)} : l \in ls}

\* SUM(contract.amount) over joined rows; NULL for no row
RECURSIVE SumRows(_)
SumRows(rows) ==
    IF rows = {} THEN 0
    ELSE LET r == CHOOSE x \in rows : TRUE
         IN  contracts[history[r.ac].contract].amount + SumRows(rows \ {r})

SqlSum(rows) ==
    IF rows = {} THEN [is_null |-> TRUE, val |-> 0]
    ELSE [is_null |-> FALSE, val |-> SumRows(rows)]

\* Coalesce(x, 0)
Coalesce(x, default) == IF x.is_null THEN default ELSE x.val

\* Variant: the count without its is_deleted filter
leads_count_unfiltered(c) ==
    Cardinality({r.lead : r \in {x \in JoinRows(c) : x.lead # 0}})

\* Count("leads", filter=Q(leads__is_deleted=False), distinct=True)
leads_count(c) ==
    Cardinality({r.lead : r \in {x \in JoinRows(c) : x.lead # 0 /\ ~leads[x.lead].is_deleted}})

\* Count("leads__contracts_history",
\*       filter=Q(leads__contracts_history__is_deleted=False), distinct=True)
customers_count(c) ==
    Cardinality({r.ac : r \in {x \in JoinRows(c) : x.ac # 0 /\ ~history[x.ac].is_deleted}})

\* Variant: the sum without its is_deleted filter
total_revenue_unfiltered(c) ==
    Coalesce(SqlSum({x \in JoinRows(c) : x.ac # 0}), 0)

\* Coalesce(Sum("leads__contracts_history__contract__amount",
\*              filter=Q(leads__contracts_history__is_deleted=False)), 0)
total_revenue(c) ==
    Coalesce(SqlSum({x \in JoinRows(c) : x.ac # 0 /\ ~history[x.ac].is_deleted}), 0)

\* Variant: the division without the When(budget=0) branch
profit_unguarded(c) == PercentOf(total_revenue(c), campaigns[c].budget)

\* Case(When(budget=0, then=None), default=(F("total_revenue") / F("budget")) * 100)
profit(c) ==
    IF campaigns[c].budget = 0 THEN NullRatio
    ELSE PercentOf(total_revenue(c), campaigns[c].budget)

\* get_campaigns_with_stats / AdCampaignStatisticView.get_queryset: one
\* annotated row per campaign of the default manager
get_campaigns_with_stats ==
    [c \in AdCampaignObjects |->
        [leads_count |-> leads_count(c), customers_count |-> customers_count(c),
         total_revenue |-> total_revenue(c), profit |-> profit(c)]]

\* ------------------------------------------------------------------------
\* Detail aggregation: get_detailed_stats_for_campaign
\* ------------------------------------------------------------------------
Max(S) == CHOOSE x \in S : \A y \in S : x >= y

\* list(queryset) under Meta.ordering = ["-created_at"]: newest pk first
RECURSIVE NewestFirst(_)
NewestFirst(S) ==
    IF S = {} THEN <<>> ELSE <<Max(S)>> \o NewestFirst(S \ {Max(S)})

\* campaign.leads.all(): the reverse manager filters through `objects`
CampaignLeads(c) == NewestFirst({l \in LeadObjects : leads[l].ad_campaign = c})

\* sum of contract.amount over the entries of a set of history rows
RECURSIVE SumEntries(_)
SumEntries(S) ==
    IF S = {} THEN 0
    ELSE LET e == CHOOSE x \in S : TRUE
         IN  contracts[history[e].contract].amount + SumEntries(S \ {e})

\* the revenue loop: for each lead, for each entry of the prefetched
\* lead.contracts_history.all()
RECURSIVE RevenueLoop(_)
RevenueLoop(ls) ==
    IF ls = <<>> THEN 0
    ELSE SumEntries(ContractsHistory(Head(ls))) + RevenueLoop(Tail(ls))

\* lead.contracts_history.exists(): answered from the prefetched rows
HistoryExists(l) == ContractsHistory(l) # {}

\* Variant: "archived" keyed on history alone, without the LOST rule
SelectorKeeps_historyOnly(l, f) ==
    IF f = "active" THEN ActiveContract(l) # 0
    ELSE IF f = "archived" THEN ActiveContract(l) = 0 /\ HistoryExists(l)
    ELSE IF f = "in_work" THEN ~HistoryExists(l) /\ leads[l].status # "LOST"
    ELSE TRUE

\* the membership test of each status filter of the selector
SelectorKeeps(l, f) ==
    IF f = "active" THEN ActiveContract(l) # 0
    ELSE IF f = "archived"
         THEN (ActiveContract(l) = 0 /\ HistoryExists(l)) \/ leads[l].status = "LOST"
    ELSE IF f = "in_work" THEN ~HistoryExists(l) /\ leads[l].status # "LOST"
    ELSE TRUE

get_detailed_stats_for_campaign(c, f) ==
    LET all_leads_list == CampaignLeads(c)
        revenue == RevenueLoop(all_leads_list)
        Keeps(l) == SelectorKeeps(l, f)
        IsActive(l) == ActiveContract(l) # 0
    IN  [leads_list |-> SelectSeq(all_leads_list, Keeps),
         total_leads |-> Len(all_leads_list),
         total_active_clients |-> Len(SelectSeq(all_leads_list, IsActive)),
         total_revenue |-> revenue,
         profit |-> IF campaigns[c].budget > 0
                    THEN PercentOf(revenue, campaigns[c].budget) ELSE NullRatio]

\* ------------------------------------------------------------------------
\* Detail statistics page: the computation of
\* AdCampaignDetailStatisticView.get_context_data on a cache miss
\* ------------------------------------------------------------------------
ViewKeeps(l, f) ==
    IF f = "active" THEN ActiveContract(l) # 0
    ELSE IF f = "archived" THEN ActiveContract(l) = 0 /\ HistoryExists(l)
    ELSE IF f = "in_work" THEN ~HistoryExists(l)
    ELSE TRUE

\* sum(active_client.contract.amount for active_client in active_clients)
RECURSIVE ActiveRevenueLoop(_)
ActiveRevenueLoop(ls) ==
    IF ls = <<>> THEN 0
    ELSE contracts[history[ActiveContract(Head(ls))].contract].amount
         + ActiveRevenueLoop(Tail(ls))

ViewComputedData(c, f) ==
    LET Keeps(l) == ViewKeeps(l, f)
        IsActive(l) == ActiveContract(l) # 0
        leads_list == SelectSeq(CampaignLeads(c), Keeps)
        active_leads == SelectSeq(leads_list, IsActive)
        revenue == ActiveRevenueLoop(active_leads)
    IN  [leads_list |-> leads_list,
         total_leads |-> Len(leads_list),
         total_active_clients |-> Len(active_leads),
         total_revenue |-> revenue,
         profit |-> IF campaigns[c].budget > 0
                    THEN PercentOf(revenue, campaigns[c].budget) ELSE NullRatio]

\* ------------------------------------------------------------------------
\* Detail statistics page: the cache around the computation
\* ------------------------------------------------------------------------
\* cache.set(..., timeout=60 * 15), in seconds
CACHE_TIMEOUT == 900

\* the step of the clock, in seconds
TickSeconds == 450

\* request.GET.get("status", ""): the form's choices and any other text
RawFilters == StatusFilters \cup {"other"}

\* Variant: a key made of the campaign alone
cache_key_campaignOnly(pk, status_filter) ==
    "ad_campaign_stats_" \o ToString(pk)

\* f"ad_campaign_stats_{campaign.pk}_status_{status_filter}"
cache_key(pk, status_filter) ==
    "ad_campaign_stats_" \o ToString(pk) \o "_status_" \o status_filter

\* an entry is dead once its timeout has passed
has_expired(entry) == entry.age >= CACHE_TIMEOUT

\* Variant: cache.get that also returns dead entries
cache_hit_ignoringExpiry(key) == key \in DOMAIN cache

\* cache.get(key) returns the stored dictionary (which is never empty, so
\* `if computed_data` is the test for a hit) unless absent or expired
cache_hit(key) == key \in DOMAIN cache /\ ~has_expired(cache[key])

\* cache.set(key, data, timeout): a new entry replaces the old one
cache_set(key, data) ==
    [x \in DOMAIN cache \cup {key} |->
        IF x = key THEN [data |-> data, age |-> 0] ELSE cache[x]]

\* AdCampaignDetailStatisticView.get_context_data: the campaign is fetched
\* through `objects`; a hit returns the cached dictionary, a miss computes
\* it from the tables and stores it
AdCampaignDetailStatisticView(c, raw) ==
    /\ c \in AdCampaignObjects
    /\ LET key == cache_key(c, raw)
       IN  IF cache_hit(key)
           THEN /\ page' = [campaign |-> c, status |-> raw, source |-> "cache",
                            data |-> cache[key].data]
                /\ cache' = cache
                /\ fresh' = fresh
           ELSE /\ page' = [campaign |-> c, status |-> raw, source |-> "computed",
                            data |-> ViewComputedData(c, raw)]
                /\ cache' = cache_set(key, ViewComputedData(c, raw))
                /\ fresh' = fresh \cup {key}
    /\ last' = [op |-> "detail_statistic", result |-> "ok"]
    /\ UNCHANGED <<services, campaigns, contracts, leads, history, procs, generated,
                   since_write, used>>

\* TickSeconds pass: every entry ages (no further once it is dead), and so
\* does the last write
Tick ==
    /\ cache' = [x \in DOMAIN cache |->
                    [cache[x] EXCEPT !.age = IF @ + TickSeconds >= CACHE_TIMEOUT
                                              THEN CACHE_TIMEOUT ELSE @ + TickSeconds]]
    /\ since_write' = IF since_write > CACHE_TIMEOUT THEN since_write
                       ELSE since_write + TickSeconds
    /\ last' = [op |-> "tick", result |-> "ok"]
    /\ UNCHANGED <<services, campaigns, contracts, leads, history, procs, generated, page,
                   fresh, used>>

\* the cache backend drops an entry (culling, restart)
Evict(key) ==
    /\ key \in DOMAIN cache
    /\ cache' = [x \in DOMAIN cache \ {key} |-> cache[x]]
    /\ last' = [op |-> "evict", result |-> "ok"]
    /\ fresh' = fresh \ {key}
    /\ UNCHANGED <<services, campaigns, contracts, leads, history, procs, generated, page,
                   since_write, used>>

\* ------------------------------------------------------------------------
\* The detail statistics page over a store with one lead, captured through
\* campaign 1: activations, deactivations, page requests, time
\* ------------------------------------------------------------------------
InitCache ==
    /\ services = [sv \in ServiceIds |-> [is_deleted |-> FALSE, deleted_at |-> NullTime]]
    /\ campaigns = [c \in {1, 2} |->
                      IF c = 1 THEN [service |-> "s1", budget |-> 1000,
                                     is_deleted |-> FALSE, deleted_at |-> NullTime]
                               ELSE [service |-> "s2", budget |-> 0,
                                     is_deleted |-> FALSE, deleted_at |-> NullTime]]
    /\ contracts = [k \in ContractIds |->
                      [service |-> ContractService(k), amount |-> ContractAmount(k),
                       is_deleted |-> FALSE, deleted_at |-> NullTime]]
    /\ leads = <<[status |-> "NEW", ad_campaign |-> 1, email |-> FreshEmail(1),
                  phone |-> NullPhone, is_deleted |-> FALSE,
                  deleted_at |-> NullTime, gone |-> FALSE]>>
    /\ history = <<>>
    /\ last = [op |-> "lead_create", result |-> "ok"]
    /\ procs = [w \in Workers |-> Idle]
    /\ generated = Referenced(leads)
    /\ cache = EmptyCache
    /\ page = NoPage
    /\ since_write = 0
    /\ fresh = {}
    /\ used = {history[e].contract : e \in DOMAIN history}

\* the filter values requested in this scenario
RequestedFilters == {"", "active"}

NextCache ==
    \/ \E l \in LeadIds, k \in ContractIds : ActivateCustomer(l, k)
    \/ \E e \in EntryIds : DeactivateClient(e)
    \/ \E c \in CampaignIds, raw \in RequestedFilters : AdCampaignDetailStatisticView(c, raw)
    \/ \E key \in DOMAIN cache : Evict(key)
    \/ Tick

SpecCache == InitCache /\ [][NextCache]_vars

Next ==
    \/ \E c \in CampaignIds \cup {NoCampaign} : LeadCreate(c)
    \/ \E l \in LeadIds, c \in CampaignIds \cup {NoCampaign} : LeadUpdate(l, c)
    \/ \E l \in LeadIds : LeadSoftDelete(l)
    \/ \E l \in LeadIds : LeadDeleteView(l)
    \/ \E l \in LeadIds, s \in RequestedStatuses : UpdateLeadStatus(l, s)
    \/ \E l \in LeadIds, k \in ContractIds : ActivateCustomer(l, k)
    \/ \E e \in EntryIds : DeactivateClient(e)

Spec == Init /\ [][Next]_vars

\* ------------------------------------------------------------------------
\* The lead life cycle on its own: capture, explicit status changes,
\* activation and deactivation
\* ------------------------------------------------------------------------
NextLife ==
    \/ \E c \in CampaignIds \cup {NoCampaign} : LeadCreate(c)
    \/ \E l \in LeadIds, s \in RequestedStatuses : UpdateLeadStatus(l, s)
    \/ \E l \in LeadIds, k \in ContractIds : ActivateCustomer(l, k)
    \/ \E e \in EntryIds : DeactivateClient(e)

SpecLife == Init /\ [][NextLife]_vars

\* ------------------------------------------------------------------------
\* Activation and soft deletion of history entries only: no explicit status
\* change, no restore, one request at a time
\* ------------------------------------------------------------------------
NextActivation ==
    \/ \E c \in CampaignIds \cup {NoCampaign} : LeadCreate(c)
    \/ \E l \in LeadIds, k \in ContractIds : ActivateCustomer(l, k)
    \/ \E e \in EntryIds : DeactivateClient(e)
    \/ \E e \in EntryIds : ActiveClientSoftDelete(e)

SpecActivation == Init /\ [][NextActivation]_vars

\* ------------------------------------------------------------------------
\* The life cycle with every kind of save of a history entry
\* ------------------------------------------------------------------------
NextEntries ==
    \/ \E c \in CampaignIds \cup {NoCampaign} : LeadCreate(c)
    \/ \E l \in LeadIds, s \in RequestedStatuses : UpdateLeadStatus(l, s)
    \/ \E l \in LeadIds, k \in ContractIds : ActivateCustomer(l, k)
    \/ \E e \in EntryIds : DeactivateClient(e)
    \/ \E e \in EntryIds : ActiveClientSoftDelete(e)
    \/ \E e \in EntryIds : ActiveClientRestore(e)
    \/ \E e \in EntryIds, k \in ContractIds : ActiveClientUpdate(e, k)

SpecEntries == Init /\ [][NextEntries]_vars

\* ------------------------------------------------------------------------
\* Soft deletion and restoration of every entity
\* ------------------------------------------------------------------------
\* Two leads have been captured, one per campaign; the first has been
\* activated with the contract of its campaign's service, the second has
\* been activated as well or is still NEW.
InitSoftDelete ==
    /\ services = [sv \in ServiceIds |-> [is_deleted |-> FALSE, deleted_at |-> NullTime]]
    /\ campaigns = [c \in {1, 2} |->
                      IF c = 1 THEN [service |-> "s1", budget |-> 1000,
                                     is_deleted |-> FALSE, deleted_at |-> NullTime]
                               ELSE [service |-> "s2", budget |-> 0,
                                     is_deleted |-> FALSE, deleted_at |-> NullTime]]
    /\ contracts = [k \in ContractIds |->
                      [service |-> ContractService(k), amount |-> ContractAmount(k),
                       is_deleted |-> FALSE, deleted_at |-> NullTime]]
    /\ \E second \in BOOLEAN :
          /\ leads = [l \in 1..2 |->
                        [status |-> IF l = 1 \/ second THEN "CONVERTED" ELSE "NEW",
                         ad_campaign |-> l, email |-> FreshEmail(l),
                         phone |-> NullPhone, is_deleted |-> FALSE,
                         deleted_at |-> NullTime, gone |-> FALSE]]
          /\ history = IF second THEN <<NewEntry(1, 1), NewEntry(2, 2)>>
                                  ELSE <<NewEntry(1, 1)>>
    /\ last = [op |-> "activate", result |-> "ok"]
    /\ procs = [w \in Workers |-> Idle]
    /\ generated = Referenced(leads)
    /\ cache = EmptyCache
    /\ page = NoPage
    /\ since_write = 0
    /\ fresh = {}
    /\ used = {history[e].contract : e \in DOMAIN history}

NextSoftDelete ==
    \/ \E l \in LeadIds : LeadSoftDelete(l)
    \/ \E l \in LeadIds : LeadRestore(l)
    \/ \E e \in EntryIds : ActiveClientSoftDelete(e)
    \/ \E e \in EntryIds : ActiveClientRestore(e)
    \/ \E c \in CampaignIds : CampaignSoftDelete(c)
    \/ \E c \in CampaignIds : CampaignRestore(c)
    \/ \E k \in ContractIds : ContractSoftDelete(k)
    \/ \E k \in ContractIds : ContractRestore(k)
    \/ \E sv \in ServiceIds : ServiceSoftDelete(sv)
    \/ \E sv \in ServiceIds : ServiceRestore(sv)

SpecSoftDelete == InitSoftDelete /\ [][NextSoftDelete]_vars

\* ------------------------------------------------------------------------
\* Campaigns and their leads: capture, edit, deletion of either
\* ------------------------------------------------------------------------
NextDelete ==
    \/ \E c \in CampaignIds \cup {NoCampaign} : LeadCreate(c)
    \/ \E l \in LeadIds, c \in CampaignIds \cup {NoCampaign} : LeadUpdate(l, c)
    \/ \E l \in LeadIds : LeadSoftDelete(l)
    \/ \E l \in LeadIds : LeadHardDelete(l)
    \/ \E l \in LeadIds, k \in ContractIds : ActivateCustomer(l, k)
    \/ \E c \in CampaignIds : AdCampaignDeleteView(c)
    \/ \E c \in CampaignIds : CampaignHardDelete(c)

SpecDelete == Init /\ [][NextDelete]_vars

\* ------------------------------------------------------------------------
\* Physical deletion of every entity (model .delete(), as the admin site
\* runs it), with the requests that create and retire the dependents
\* ------------------------------------------------------------------------
NextHardDelete ==
    \/ \E c \in CampaignIds \cup {NoCampaign} : LeadCreate(c)
    \/ \E l \in LeadIds, k \in ContractIds : ActivateCustomer(l, k)
    \/ \E e \in EntryIds : DeactivateClient(e)
    \/ \E c \in CampaignIds : AdCampaignDeleteView(c)
    \/ \E l \in LeadIds : LeadHardDelete(l)
    \/ \E c \in CampaignIds : CampaignHardDelete(c)
    \/ \E k \in ContractIds : ContractHardDelete(k)
    \/ \E sv \in ServiceIds : ServiceHardDelete(sv)

SpecHardDelete == Init /\ [][NextHardDelete]_vars

\* ------------------------------------------------------------------------
\* Contact data: leads captured and edited with colliding addresses and
\* phones, soft-deleted and restored
\* ------------------------------------------------------------------------
NextContacts ==
    \/ \E email \in Emails, phone \in Phones : LeadCreateForm(NoCampaign, email, phone)
    \/ \E l \in LeadIds, email \in Emails, phone \in Phones :
          LeadUpdateForm(l, NoCampaign, email, phone)
    \/ \E l \in LeadIds : LeadSoftDelete(l)
    \/ \E l \in LeadIds : LeadRestore(l)

SpecContacts == Init /\ [][NextContacts]_vars

\* ------------------------------------------------------------------------
\* Every request that writes to the store, and the statistics list page
\* ------------------------------------------------------------------------
\* AdCampaignStatisticView: renders the annotated queryset, writes nothing
AdCampaignStatisticView ==
    /\ last' = [op |-> "stats_list",
                result |-> IF \E c \in AdCampaignObjects :
                                 get_campaigns_with_stats[c].profit.kind = "error"
                           THEN "error" ELSE "ok"]
    /\ UNCHANGED <<services, campaigns, contracts, leads, history, procs, generated, cache, page>>
    /\ Stamp

\* One lead has been captured through campaign 1.
InitStore ==
    /\ services = [sv \in ServiceIds |-> [is_deleted |-> FALSE, deleted_at |-> NullTime]]
    /\ campaigns = [c \in {1, 2} |->
                      IF c = 1 THEN [service |-> "s1", budget |-> 1000,
                                     is_deleted |-> FALSE, deleted_at |-> NullTime]
                               ELSE [service |-> "s2", budget |-> 0,
                                     is_deleted |-> FALSE, deleted_at |-> NullTime]]
    /\ contracts = [k \in ContractIds |->
                      [service |-> ContractService(k), amount |-> ContractAmount(k),
                       is_deleted |-> FALSE, deleted_at |-> NullTime]]
    /\ leads = <<[status |-> "NEW", ad_campaign |-> 1, email |-> FreshEmail(1),
                  phone |-> NullPhone, is_deleted |-> FALSE,
                  deleted_at |-> NullTime, gone |-> FALSE]>>
    /\ history = <<>>
    /\ last = [op |-> "lead_create", result |-> "ok"]
    /\ procs = [w \in Workers |-> Idle]
    /\ generated = Referenced(leads)
    /\ cache = EmptyCache
    /\ page = NoPage
    /\ since_write = 0
    /\ fresh = {}
    /\ used = {history[e].contract : e \in DOMAIN history}

NextStore ==
    \/ \E l \in LeadIds, c \in CampaignIds \cup {NoCampaign} : LeadUpdate(l, c)
    \/ \E l \in LeadIds : LeadDeleteView(l)
    \/ \E l \in LeadIds : LeadSoftDelete(l)
    \/ \E l \in LeadIds : LeadRestore(l)
    \/ \E l \in LeadIds, s \in RequestedStatuses : UpdateLeadStatus(l, s)
    \/ \E l \in LeadIds, k \in ContractIds : ActivateCustomer(l, k)
    \/ \E e \in EntryIds : DeactivateClient(e)
    \/ \E c \in CampaignIds : AdCampaignDeleteView(c)
    \/ \E c \in CampaignIds : CampaignRestore(c)
    \/ \E k \in ContractIds : ContractDeleteView(k)
    \/ \E k \in ContractIds : ContractRestore(k)
    \/ \E sv \in ServiceIds : ServiceDeleteView(sv)
    \/ \E sv \in ServiceIds : ServiceRestore(sv)
    \/ AdCampaignStatisticView

SpecStore == InitStore /\ [][NextStore]_vars

\* ------------------------------------------------------------------------
\* Concurrent activation requests
\*
\* Two workers serve activation requests against the shared store. The
\* database runs READ COMMITTED: a statement sees committed rows and the
\* rows of its own transaction. activate_customer runs inside
\* transaction.atomic, so its writes reach the store at commit; the writes of
\* ActiveClientCreateFromLeadView.form_valid are not wrapped in a
\* transaction and reach the store statement by statement (autocommit).
\* ------------------------------------------------------------------------
Paths == {"service", "form_valid"}

\* Two leads have been captured (any campaign), nothing else has happened.
InitConc ==
    /\ services = [s \in ServiceIds |-> [is_deleted |-> FALSE, deleted_at |-> NullTime]]
    /\ campaigns = [c \in {1, 2} |->
                      IF c = 1 THEN [service |-> "s1", budget |-> 1000,
                                     is_deleted |-> FALSE, deleted_at |-> NullTime]
                               ELSE [service |-> "s2", budget |-> 0,
                                     is_deleted |-> FALSE, deleted_at |-> NullTime]]
    /\ contracts = [k \in ContractIds |->
                      [service |-> ContractService(k), amount |-> ContractAmount(k),
                       is_deleted |-> FALSE, deleted_at |-> NullTime]]
    /\ \E cs \in [1..MaxLeads -> {NoCampaign, 1, 2}] :
          leads = [l \in 1..MaxLeads |->
                     [status |-> "NEW", ad_campaign |-> cs[l], email |-> FreshEmail(l),
                      phone |-> NullPhone, is_deleted |-> FALSE,
                      deleted_at |-> NullTime, gone |-> FALSE]]
    /\ history = <<>>
    /\ last = [op |-> "init", result |-> "ok"]
    /\ procs = [w \in Workers |-> Idle]
    /\ generated = Referenced(leads)
    /\ cache = EmptyCache
    /\ page = NoPage
    /\ since_write = 0
    /\ fresh = {}
    /\ used = {history[e].contract : e \in DOMAIN history}

\* the caller fetches the lead and the contract before the checks run: the
\* lead instance keeps the status it had when it was read
LoadRequest(w, path, l, k) ==
    /\ procs[w].pc = "idle"
    /\ l \in LeadObjects
    /\ k \in ContractObjects
    /\ procs' = [procs EXCEPT ![w] = [pc |-> "loaded", path |-> path, lead |-> l,
                                      contract |-> k, seen_status |-> leads[l].status,
                                      result |-> "none"]]
    /\ UNCHANGED <<services, campaigns, contracts, leads, history, last, generated, cache, page>>
    /\ Stamp

\* activate_customer, checks 1-3 on the instances in hand; the contract's
\* active_client is read from the store when the check runs
ServiceChecks(w) ==
    LET l == procs[w].lead
        k == procs[w].contract
    IN  IF procs[w].seen_status = "CONVERTED" THEN "already_active"
        ELSE IF ContractActiveClient(k) # {} THEN "contract_taken"
        ELSE IF leads[l].ad_campaign # NoCampaign
                /\ campaigns[leads[l].ad_campaign].service # contracts[k].service
             THEN "service_mismatch"
        ELSE "ok"

\* ActiveClientCreateFromLeadView: the status test of dispatch, then the
\* validation of ActiveClientCreateForm (the contract must be in
\* Contract.objects.filter(active_client__isnull=True)); no service test.
\* form_valid is taken as entered with a valid bound form: as shipped,
\* get_form_kwargs hands the form a `lead` keyword that the form passes on
\* to ModelForm.__init__, which does not accept it.
FormChecks(w) ==
    IF procs[w].seen_status = "CONVERTED" THEN "already_active"
    ELSE IF ContractActiveClient(procs[w].contract) # {} THEN "invalid_form"
    ELSE "ok"

CheckRequest(w) ==
    /\ procs[w].pc = "loaded"
    /\ LET r == IF procs[w].path = "service" THEN ServiceChecks(w) ELSE FormChecks(w)
       IN  procs' = [procs EXCEPT ![w].pc = IF r = "ok" THEN "insert" ELSE "done",
                                  ![w].result = IF r = "ok" THEN "none" ELSE r]
    /\ UNCHANGED <<services, campaigns, contracts, leads, history, last, generated, cache, page>>
    /\ Stamp

\* Variant: the contract column without its unique index
UniqueViolation_noIndex(k) == FALSE

\* the unique index of the one-to-one contract column: an insert of a key
\* that a committed row already holds raises IntegrityError
UniqueViolation(k) == \E e \in EntryIds : history[e].contract = k

\* an insert waits while another transaction holds the same key uncommitted
InsertBlocked(w) ==
    \E v \in Workers \ {w} :
        /\ procs[v].path = "service"
        /\ procs[v].pc \in {"inserted", "updated"}
        /\ procs[v].contract = procs[w].contract

\* ActiveClient.objects.create(...) / form.save(): the INSERT statement
InsertEntry(w) ==
    /\ procs[w].pc = "insert"
    /\ ~InsertBlocked(w)
    /\ IF UniqueViolation(procs[w].contract)
       THEN \* IntegrityError: the atomic block rolls back, the view raises
            /\ procs' = [procs EXCEPT ![w].pc = "done", ![w].result = "integrity_error"]
            /\ history' = history
       ELSE /\ procs' = [procs EXCEPT ![w].pc = "inserted"]
            /\ history' = IF procs[w].path = "form_valid"
                           THEN Append(history, NewEntry(procs[w].lead, procs[w].contract))
                           ELSE history
    /\ UNCHANGED <<services, campaigns, contracts, leads, last, generated, cache, page>>
    /\ Stamp

\* the request dies between the two writes (worker killed, connection
\* lost): an open transaction is rolled back, a committed statement stays
FailBetweenWrites(w) ==
    /\ procs[w].pc = "inserted"
    /\ procs' = [procs EXCEPT ![w].pc = "done", ![w].result = "failed"]
    /\ UNCHANGED <<services, campaigns, contracts, leads, history, last, generated, cache, page>>
    /\ Stamp

\* an UPDATE waits while another transaction holds the row lock
UpdateBlocked(w) ==
    \E v \in Workers \ {w} :
        /\ procs[v].path = "service"
        /\ procs[v].pc = "updated"
        /\ procs[v].lead = procs[w].lead

\* lead.status = CONVERTED; lead.save(update_fields=["status"])
UpdateStatus(w) ==
    /\ procs[w].pc = "inserted"
    /\ ~UpdateBlocked(w)
    /\ IF procs[w].path = "form_valid"
       THEN /\ procs' = [procs EXCEPT ![w].pc = "done", ![w].result = "ok"]
            /\ leads' = IF procs[w].seen_status # "CONVERTED"
                         THEN [leads EXCEPT ![procs[w].lead].status = "CONVERTED"]
                         ELSE leads
       ELSE /\ procs' = [procs EXCEPT ![w].pc = "updated"]
            /\ leads' = leads
    /\ UNCHANGED <<services, campaigns, contracts, history, last, generated, cache, page>>
    /\ Stamp

\* leaving transaction.atomic: both writes of the service become visible
CommitActivation(w) ==
    /\ procs[w].pc = "updated"
    /\ procs' = [procs EXCEPT ![w].pc = "done", ![w].result = "ok"]
    /\ history' = Append(history, NewEntry(procs[w].lead, procs[w].contract))
    /\ leads' = [leads EXCEPT ![procs[w].lead].status = "CONVERTED"]
    /\ UNCHANGED <<services, campaigns, contracts, last, generated, cache, page>>
    /\ Stamp

NextConc ==
    \/ \E w \in Workers, path \in Paths, l \in LeadIds, k \in ContractIds :
          LoadRequest(w, path, l, k)
    \/ \E w \in Workers : CheckRequest(w)
    \/ \E w \in Workers : InsertEntry(w)
    \/ \E w \in Workers : FailBetweenWrites(w)
    \/ \E w \in Workers : UpdateStatus(w)
    \/ \E w \in Workers : CommitActivation(w)

SpecConc == InitConc /\ [][NextConc]_vars

\* ------------------------------------------------------------------------
\* A campaign's deletion concurrent with the capture of a lead
\*
\* Two workers serve AdCampaignDeleteView and LeadCreateView requests
\* against the shared store. Neither view locks what it reads: every
\* statement sees the rows committed when it runs.
\* ------------------------------------------------------------------------
\* a worker that serves neither request
RaceIdle == [pc |-> "idle", path |-> "none", campaign |-> NoCampaign, result |-> "none"]

InitRace ==
    /\ services = [s \in ServiceIds |-> [is_deleted |-> FALSE, deleted_at |-> NullTime]]
    /\ campaigns = [c \in {1, 2} |->
                      IF c = 1 THEN [service |-> "s1", budget |-> 1000,
                                     is_deleted |-> FALSE, deleted_at |-> NullTime]
                               ELSE [service |-> "s2", budget |-> 0,
                                     is_deleted |-> FALSE, deleted_at |-> NullTime]]
    /\ contracts = [k \in ContractIds |->
                      [service |-> ContractService(k), amount |-> ContractAmount(k),
                       is_deleted |-> FALSE, deleted_at |-> NullTime]]
    /\ leads = <<>>
    /\ history = <<>>
    /\ last = [op |-> "init", result |-> "ok"]
    /\ procs = [w \in Workers |-> RaceIdle]
    /\ generated = Referenced(leads)
    /\ cache = EmptyCache
    /\ page = NoPage
    /\ since_write = 0
    /\ fresh = {}
    /\ used = {history[e].contract : e \in DOMAIN history}

\* DeleteView.post: get_object() fetches the campaign through `objects`
DeleteRequestLoad(w, c) ==
    /\ procs[w].pc = "idle"
    /\ c \in AdCampaignObjects
    /\ procs' = [procs EXCEPT ![w] = [pc |-> "loaded", path |-> "campaign_delete",
                                      campaign |-> c, result |-> "none"]]
    /\ UNCHANGED <<services, campaigns, contracts, leads, history, last, generated, cache, page>>
    /\ Stamp

\* AdCampaignDeleteView.form_valid: protected_leads.exists()
DeleteRequestCheck(w) ==
    /\ procs[w].pc = "loaded"
    /\ procs[w].path = "campaign_delete"
    /\ procs' = IF ProtectedLeads(procs[w].campaign) # {}
                THEN [procs EXCEPT ![w].pc = "done", ![w].result = "protected"]
                ELSE [procs EXCEPT ![w].pc = "checked"]
    /\ UNCHANGED <<services, campaigns, contracts, leads, history, last, generated, cache, page>>
    /\ Stamp

\* Variant: the dependents read again, under a lock, before the write
DeleteRequestSave_rechecking(w) ==
    /\ procs[w].pc = "checked"
    /\ IF ProtectedLeads(procs[w].campaign) # {}
       THEN /\ campaigns' = campaigns
            /\ procs' = [procs EXCEPT ![w].pc = "done", ![w].result = "protected"]
       ELSE /\ campaigns' = [campaigns EXCEPT ![procs[w].campaign] = soft_delete(@)]
            /\ procs' = [procs EXCEPT ![w].pc = "done", ![w].result = "ok"]
    /\ UNCHANGED <<services, contracts, leads, history, last, generated, cache, page>>
    /\ Stamp

\* AdCampaignDeleteView.form_valid: self.object.soft_delete()
DeleteRequestSave(w) ==
    /\ procs[w].pc = "checked"
    /\ campaigns' = [campaigns EXCEPT ![procs[w].campaign] = soft_delete(@)]
    /\ procs' = [procs EXCEPT ![w].pc = "done", ![w].result = "ok"]
    /\ UNCHANGED <<services, contracts, leads, history, last, generated, cache, page>>
    /\ Stamp

\* the requests being served that will insert a lead
PendingCreates == {w \in Workers : procs[w].pc = "validated"}

\* LeadCreateView.post: form.is_valid(); the ad_campaign field accepts a
\* campaign found through `objects`
CreateRequestValidate(w, c) ==
    /\ procs[w].pc = "idle"
    /\ Len(leads) + Cardinality(PendingCreates) < MaxLeads
    /\ c \in AdCampaignObjects
    /\ procs' = [procs EXCEPT ![w] = [pc |-> "validated", path |-> "lead_create",
                                      campaign |-> c, result |-> "none"]]
    /\ UNCHANGED <<services, campaigns, contracts, leads, history, last, generated, cache, page>>
    /\ Stamp

\* LeadCreateView.form_valid: form.save() inserts the row; the campaign row
\* it references is in the table, soft-deleted or not
CreateRequestSave(w) ==
    /\ procs[w].pc = "validated"
    /\ leads' = Append(leads,
                       [status |-> "NEW", ad_campaign |-> procs[w].campaign,
                        email |-> FreshEmail(Len(leads) + 1), phone |-> NullPhone,
                        is_deleted |-> FALSE, deleted_at |-> NullTime, gone |-> FALSE])
    /\ generated' = generated \cup {procs[w].campaign}
    /\ procs' = [procs EXCEPT ![w].pc = "done", ![w].result = "ok"]
    /\ UNCHANGED <<services, campaigns, contracts, history, last, cache, page>>
    /\ Stamp

\* the response has been sent; the worker takes the next request
RequestDone(w) ==
    /\ procs[w].pc = "done"
    /\ procs' = [procs EXCEPT ![w] = RaceIdle]
    /\ UNCHANGED <<services, campaigns, contracts, leads, history, last, generated, cache, page>>
    /\ Stamp

NextRace ==
    \/ \E w \in Workers, c \in CampaignIds : DeleteRequestLoad(w, c)
    \/ \E w \in Workers : DeleteRequestCheck(w)
    \/ \E w \in Workers : DeleteRequestSave(w)
    \/ \E w \in Workers, c \in CampaignIds : CreateRequestValidate(w, c)
    \/ \E w \in Workers : CreateRequestSave(w)
    \/ \E w \in Workers : RequestDone(w)

SpecRace == InitRace /\ [][NextRace]_vars

\* ------------------------------------------------------------------------
\* Properties
\* ------------------------------------------------------------------------
Range(q) == {q[i] : i \in DOMAIN q}

\* the leads of campaign c that are not soft-deleted
LiveLeadsOf(c) == {l \in LeadIds : ~leads[l].is_deleted /\ leads[l].ad_campaign = c}

\* a step that soft-deletes lead l, through the model method or the view
SoftDeletesLead(l) ==
    LeadSoftDelete(l) \/ (LeadDeleteView(l) /\ last'.result = "ok")

C2_CustomersCountOfLiveLeads ==
    \A c \in AdCampaignObjects :
        get_campaigns_with_stats[c].customers_count =
            Cardinality({e \in EntryIds : /\ ~history[e].is_deleted
                                          /\ history[e].potential_client \in LiveLeadsOf(c)})

\* C3: in the list aggregation total_revenue(C) is the sum of contract.amount
\* over the non-deleted history entries of C's leads, and it is 0 when C has
\* no such entry (also when C has no lead at all).
C3_TotalRevenue ==
    \A c \in AdCampaignObjects :
        LET es == {e \in EntryIds : /\ ~history[e].is_deleted
                                    /\ leads[history[e].potential_client].ad_campaign = c}
        IN  /\ get_campaigns_with_stats[c].total_revenue = SumEntries(es)
            /\ es = {} => get_campaigns_with_stats[c].total_revenue = 0

C3_Witness ==
    \E c \in CampaignIds, d \in CampaignIds :
        /\ {l \in LeadIds : leads[l].ad_campaign = d} = {}
        /\ total_revenue(d) = 0
        /\ total_revenue(c) > 0
        /\ \E e \in EntryIds : /\ history[e].is_deleted
                               /\ leads[history[e].potential_client].ad_campaign = c

\* the ratio p is null exactly for a zero budget and is otherwise
\* (revenue / budget) * 100, and it is never a division error
ProfitMatches(p, revenue, budget) ==
    /\ p.kind # "error"
    /\ p.kind = "null" <=> budget = 0
    /\ p.kind = "value" => p.num * budget = p.den * revenue * 100

\* C4: in the list and in the detail aggregation profit is null exactly when
\* budget = 0 and otherwise (total_revenue / budget) * 100 of the same result;
\* no division error occurs.
C4_Profit ==
    \A c \in AdCampaignObjects :
        /\ ProfitMatches(get_campaigns_with_stats[c].profit,
                         get_campaigns_with_stats[c].total_revenue, campaigns[c].budget)
        /\ \A f \in StatusFilters :
              LET d == get_detailed_stats_for_campaign(c, f)
              IN  ProfitMatches(d.profit, d.total_revenue, campaigns[c].budget)

C4_Witness ==
    \E c \in CampaignIds, d \in CampaignIds :
        /\ campaigns[c].budget = 0 /\ total_revenue(c) > 0 /\ profit(c).kind = "null"
        /\ campaigns[d].budget > 0 /\ total_revenue(d) > 0 /\ profit(d).kind = "value"
        /\ get_detailed_stats_for_campaign(d, "").profit.kind = "value"

KPI(d) == <<d.total_leads, d.total_active_clients, d.total_revenue, d.profit>>

\* C5: the KPI fields of the detail aggregation are the same for all four
\* status filters, in the selector and in the result the detail page serves.
C5_KpiIndependentOfFilter ==
    \A c \in AdCampaignObjects : \A f \in StatusFilters :
        /\ KPI(get_detailed_stats_for_campaign(c, f)) = KPI(get_detailed_stats_for_campaign(c, ""))
        /\ KPI(ViewComputedData(c, f)) = KPI(ViewComputedData(c, ""))

\* C6: the detail total_revenue counts every contract a campaign's lead has
\* had, the soft-deleted (deactivated) history entries included.
C6_RevenueCountsArchivedContracts ==
    \A c \in AdCampaignObjects :
        get_detailed_stats_for_campaign(c, "").total_revenue =
            SumEntries({e \in EntryIds : history[e].potential_client \in LiveLeadsOf(c)})

\* C7: under "archived" the list is exactly the campaign's leads that have no
\* non-deleted entry but some entry (soft-deleted included), or are LOST.
C7_ArchivedList ==
    \A c \in AdCampaignObjects :
        Range(get_detailed_stats_for_campaign(c, "archived").leads_list) =
            {l \in LiveLeadsOf(c) :
                \/ /\ ~\E e \in EntryIds : history[e].potential_client = l /\ ~history[e].is_deleted
                   /\ \E e \in EntryIds : history[e].potential_client = l
                \/ leads[l].status = "LOST"}

LeadsListed(c, f) == Range(get_detailed_stats_for_campaign(c, f).leads_list)

\* C8: the list for the empty filter is the union of the lists for "active",
\* "archived" and "in_work".
C8_FilterUnion ==
    \A c \in AdCampaignObjects :
        LeadsListed(c, "") =
            LeadsListed(c, "active") \cup LeadsListed(c, "archived") \cup LeadsListed(c, "in_work")

C8_Witness ==
    \E c \in CampaignIds :
        /\ Cardinality(LeadsListed(c, "")) = 2
        /\ LeadsListed(c, "active") # {}
        /\ LeadsListed(c, "in_work") # {}

\* C9: the lists for "active", "archived" and "in_work" are pairwise disjoint.
C9_FilterDisjoint ==
    \A c \in AdCampaignObjects :
        /\ LeadsListed(c, "active") \cap LeadsListed(c, "archived") = {}
        /\ LeadsListed(c, "active") \cap LeadsListed(c, "in_work") = {}
        /\ LeadsListed(c, "archived") \cap LeadsListed(c, "in_work") = {}

\* the reason the claim's three preconditions give for activate(l, k), with
\* precondition 2 reading `taken`
ExpectedReason(l, k, taken) ==
    IF leads[l].status = "CONVERTED" THEN "already_active"
    ELSE IF taken THEN "contract_taken"
    ELSE IF leads[l].ad_campaign # NoCampaign
            /\ campaigns[leads[l].ad_campaign].service # contracts[k].service
         THEN "service_mismatch"
    ELSE "none"

RejectionAsExpected(l, k, taken) ==
    /\ ExpectedReason(l, k, taken) # "none" => last'.result = ExpectedReason(l, k, taken)
    /\ last'.result # "ok" => history' = history /\ leads' = leads

\* C10 as stated: precondition 2 is "the contract is linked to a non-deleted
\* history entry"; the first failing precondition gives the reason and a
\* rejection writes nothing.
C10_AsStated ==
    [][\A l \in LeadIds, k \in ContractIds : ActivateCustomer(l, k) =>
          RejectionAsExpected(l, k,
              \E e \in EntryIds : history[e].contract = k /\ ~history[e].is_deleted)]_vars

\* C10 amended: precondition 2 is "the contract is linked to a history entry,
\* soft-deleted or not"; otherwise as stated.
C10_Amended ==
    [][\A l \in LeadIds, k \in ContractIds : ActivateCustomer(l, k) =>
          RejectionAsExpected(l, k, \E e \in EntryIds : history[e].contract = k)]_vars

C10_Witness ==
    /\ last.op = "activate"
    /\ last.result = "contract_taken"
    /\ history # <<>>
    /\ \A e \in EntryIds : history[e].is_deleted

LostContract == {"contract_taken", "invalid_form", "integrity_error"}

\* C12: when two activation attempts for the same contract with different
\* leads run concurrently, in any interleaving, at most one succeeds: the
\* contract backs at most one entry, and the losing attempt leaves no entry
\* and does not change its lead's status.
C12_SameContractRace ==
    /\ \A k \in ContractIds : Cardinality(ContractActiveClient(k)) <= 1
    /\ \A w \in Workers, v \in Workers :
          (/\ w # v
           /\ procs[w].pc = "done" /\ procs[v].pc = "done"
           /\ procs[w].contract = procs[v].contract
           /\ procs[w].lead # procs[v].lead)
          => /\ ~(procs[w].result = "ok" /\ procs[v].result = "ok")
             /\ procs[w].result \in LostContract =>
                   /\ ~\E e \in EntryIds :
                          /\ history[e].potential_client = procs[w].lead
                          /\ history[e].contract = procs[w].contract
                   /\ leads[procs[w].lead].status = procs[w].seen_status

\* both attempts passed their checks while the contract was free; one
\* committed, the other was stopped by the unique index on insert
C12_Witness ==
    \E w \in Workers, v \in Workers :
        /\ w # v
        /\ procs[w].pc = "done" /\ procs[v].pc = "done"
        /\ procs[w].contract = procs[v].contract
        /\ procs[w].lead # procs[v].lead
        /\ procs[w].result = "integrity_error"
        /\ procs[v].result = "ok"
        /\ procs[w].path = "service"

\* C13: when two activation attempts for the same lead with two different
\* free contracts run concurrently, in any interleaving, at most one
\* succeeds: the lead never has two non-deleted entries created by them.
C13_SameLeadRace ==
    \A w \in Workers, v \in Workers :
        (/\ w # v
         /\ procs[w].pc = "done" /\ procs[v].pc = "done"
         /\ procs[w].lead = procs[v].lead
         /\ procs[w].contract # procs[v].contract)
        => /\ ~(procs[w].result = "ok" /\ procs[v].result = "ok")
           /\ Cardinality(ContractsHistory(procs[w].lead)) <= 1

\* a step that saves the persisted entry e with is_deleted = TRUE in memory
SavesEntryDeleted(e) == DeactivateClient(e) \/ ActiveClientSoftDelete(e)

\* C14: a save of a persisted entry that takes is_deleted from false
\* (stored) to true (new) while its lead is CONVERTED makes the lead
\* IN_PROGRESS within that save; the creation of an entry and a save of an
\* entry whose stored is_deleted is already true revert no lead.
C14_RevertOnEdgeOnly ==
    [][/\ \A e \in EntryIds :
             (/\ SavesEntryDeleted(e)
              /\ ~history[e].is_deleted
              /\ leads[history[e].potential_client].status = "CONVERTED")
             => leads'[history[e].potential_client].status = "IN_PROGRESS"
       /\ \A l \in LeadIds, k \in ContractIds :
             ActivateCustomer(l, k) =>
                \A m \in LeadIds : leads[m].status = "CONVERTED"
                                       => leads'[m].status = "CONVERTED"
       /\ \A e \in EntryIds :
             ((ActiveClientSoftDelete(e) \/ ActiveClientRestore(e)) /\ history[e].is_deleted)
             => leads' = leads]_vars

\* soft_delete() was called again on the only entry, already soft-deleted,
\* of a lead that is CONVERTED: the lead is CONVERTED afterwards
C14_Witness ==
    /\ last.op = "entry_soft_delete"
    /\ Len(history) = 1
    /\ history[1].is_deleted
    /\ leads[history[1].potential_client].status = "CONVERTED"

\* C15: deactivation never changes a lead whose status is NEW, IN_PROGRESS
\* or LOST, and a save of an entry that does not take is_deleted from false
\* to true (a change of its contract, a restore, a repeated soft delete)
\* never changes a lead's status, whatever it is.
C15_DeactivationFrame ==
    [][/\ \A e \in EntryIds :
             (SavesEntryDeleted(e) /\ leads[history[e].potential_client].status # "CONVERTED")
             => leads' = leads
       /\ \A e \in EntryIds, k \in ContractIds : ActiveClientUpdate(e, k) => leads' = leads
       /\ \A e \in EntryIds : ActiveClientRestore(e) => leads' = leads
       /\ \A e \in EntryIds :
             (ActiveClientSoftDelete(e) /\ history[e].is_deleted) => leads' = leads]_vars

\* the only entry, of a lead that is LOST, has just been deactivated
C15_Witness ==
    /\ last.op = "deactivate"
    /\ Len(history) = 1
    /\ history[1].is_deleted
    /\ leads[history[1].potential_client].status = "LOST"

\* C16: in every state reachable by activations, deactivations and explicit
\* status changes, each lead has at most one non-deleted history entry.
C16_OneLiveEntryPerLead ==
    \A l \in LeadIds : Cardinality(ContractsHistory(l)) <= 1

\* C17: the explicit status change sets the lead's status to the requested
\* value when it is one of NEW, IN_PROGRESS, CONVERTED, LOST, from any
\* current status; otherwise it reports an error and leaves the lead's
\* status and every other record unchanged.
C17_ExplicitStatusChange ==
    [][\A l \in LeadIds, s \in RequestedStatuses :
          UpdateLeadStatus(l, s) =>
             IF s \in Status
             THEN /\ leads'[l].status = s
                  /\ last'.result = "ok"
             ELSE /\ last'.result = "invalid_status"
                  /\ leads' = leads
                  /\ history' = history
                  /\ <<services, campaigns, contracts>>' = <<services, campaigns, contracts>>]_vars

\* an invalid value has just been refused, and some lead was taken from
\* CONVERTED back to NEW by an earlier request while its entry is live
C17_Witness ==
    /\ last = [op |-> "update_status", result |-> "invalid_status"]
    /\ \E l \in LeadIds : leads[l].status = "NEW" /\ ContractsHistory(l) # {}

\* is_deleted is true exactly when deleted_at is set
StampAgrees(row) == row.is_deleted <=> row.deleted_at # NullTime

Deleted(row) == row.is_deleted /\ row.deleted_at # NullTime

NeverDeleted(row) == ~row.is_deleted /\ row.deleted_at = NullTime

\* the flag, the stamp and the two views agree on every row
SoftDeleteConsistent ==
    /\ \A sv \in ServiceIds : StampAgrees(services[sv])
                               /\ (sv \in ServiceObjects <=> ~services[sv].is_deleted)
    /\ \A c \in CampaignIds : StampAgrees(campaigns[c])
                               /\ (c \in AdCampaignObjects <=> ~campaigns[c].is_deleted)
    /\ \A k \in ContractIds : StampAgrees(contracts[k])
                               /\ (k \in ContractObjects <=> ~contracts[k].is_deleted)
    /\ \A l \in LeadIds : StampAgrees(leads[l])
                            /\ (l \in LeadObjects <=> ~leads[l].is_deleted)
                            /\ l \in PotentialClientAllObjects
    /\ \A e \in EntryIds : StampAgrees(history[e])
                             /\ (e \in ActiveClientObjects <=> ~history[e].is_deleted)
                             /\ e \in ActiveClientAllObjects

C20_PermanentlyProtected ==
    [][\A c \in CampaignIds :
          /\ (CampaignHardDelete(c) /\ ProtectedLeads(c) # {})
                => /\ last'.result = "protected"
                   /\ campaigns' = campaigns
                   /\ leads' = leads
          /\ c \in generated => c \in DOMAIN campaigns']_vars

\* the requests that may write a lead's status
StatusWriters == {"update_status", "activate", "deactivate"}

\* C18: a lead's status changes only in a step that is an explicit
\* status-change request for it, a successful activation of it (to
\* CONVERTED) or a deactivation of one of its entries (CONVERTED to
\* IN_PROGRESS); lead edits, soft deletions and restorations of leads,
\* campaigns, contracts and services, and the statistics reads change none.
C18_StatusFrame ==
    [][/\ \A l \in LeadIds :
             leads'[l].status # leads[l].status =>
                \/ \E s \in Status : UpdateLeadStatus(l, s)
                \/ /\ \E k \in ContractIds : ActivateCustomer(l, k)
                   /\ last'.result = "ok"
                   /\ leads'[l].status = "CONVERTED"
                \/ /\ \E e \in EntryIds : history[e].potential_client = l
                                            /\ DeactivateClient(e)
                   /\ leads[l].status = "CONVERTED"
                   /\ leads'[l].status = "IN_PROGRESS"
       /\ last'.op \notin StatusWriters =>
             \A l \in LeadIds : leads'[l].status = leads[l].status]_vars

\* a lead that was deactivated earlier (IN_PROGRESS, with a soft-deleted
\* entry) has just been restored while a contract is soft-deleted
C18_Witness ==
    /\ last.op = "lead_restore"
    /\ \E e \in EntryIds :
          /\ history[e].is_deleted
          /\ leads[history[e].potential_client].status = "IN_PROGRESS"
    /\ \E k \in ContractIds : contracts[k].is_deleted
\* C21: financial history is never destroyed: a hard delete of a lead that
\* has any history entry (soft-deleted ones included) is rejected and
\* changes nothing, and no hard delete that passes its guard (that of a
\* contract whose entry is soft-deleted included) removes a history entry
\* row, directly or by cascade: every entry row present before a step is
\* present after it.
C21_HistoryNeverDestroyed ==
    [][/\ \A l \in LeadIds :
             (LeadHardDelete(l)
                /\ \E e \in ActiveClientAllObjects : history[e].potential_client = l)
             => last'.result = "protected" /\ leads' = leads /\ history' = history
       /\ \A e \in EntryIds : e \in DOMAIN history' /\ history'[e] # GoneEntry]_vars

\* the non-deleted campaigns that promote the service
LiveCampaignsOf(sv) == {c \in CampaignIds : campaigns[c].service = sv /\ ~campaigns[c].is_deleted}

\* the step removes no row of any table
NoRowRemoved ==
    /\ services' = services
    /\ campaigns' = campaigns
    /\ contracts' = contracts
    /\ leads' = leads
    /\ history' = history

\* C22 (as stated): a hard delete of a service is rejected, naming the
\* blocking campaigns and removing no row, whenever a non-deleted campaign
\* references the service; once every campaign referencing it is
\* soft-deleted the same hard delete is no longer blocked and succeeds.
C22_AsStated ==
    [][\A sv \in ServiceIds : ServiceHardDelete(sv) =>
          /\ LiveCampaignsOf(sv) # {} =>
                last'.result = "protected_by_campaigns" /\ NoRowRemoved
          /\ LiveCampaignsOf(sv) = {} =>
                last'.result = "ok" /\ sv \notin DOMAIN services']_vars

\* C22 (amended): a hard delete of a service is rejected, removing no row,
\* whenever a non-deleted campaign references the service, and a rejection
\* that names campaigns names exactly the non-deleted campaigns of the
\* service; once every campaign referencing it is soft-deleted the
\* service's own guard no longer blocks, and the delete succeeds (removing
\* the service and its campaigns, and nothing else) exactly when no
\* contract references the service and no lead references one of its
\* campaigns; otherwise it is rejected on behalf of those contracts or leads
\* and removes no row.
C22_Amended ==
    [][\A sv \in ServiceIds : ServiceHardDelete(sv) =>
          /\ LiveCampaignsOf(sv) # {} => last'.result # "ok" /\ NoRowRemoved
          /\ last'.result = "protected_by_campaigns" => LiveCampaignsOf(sv) # {}
          /\ LiveCampaignsOf(sv) = {} =>
                IF (\E k \in DOMAIN contracts : contracts[k].service = sv)
                   \/ (\E l \in LeadIds : /\ leads[l].ad_campaign \in CampaignIds
                                           /\ campaigns[leads[l].ad_campaign].service = sv)
                THEN /\ last'.result \in {"protected_by_contracts", "protected_by_leads"}
                     /\ NoRowRemoved
                ELSE /\ last'.result = "ok"
                     /\ DOMAIN services' = DOMAIN services \ {sv}
                     /\ DOMAIN campaigns' = {c \in CampaignIds : campaigns[c].service # sv}
                     /\ contracts' = contracts /\ leads' = leads /\ history' = history]_vars

\* a service has been hard-deleted after its campaign was soft-deleted, and
\* took the campaign with it
C22_Witness ==
    /\ last = [op |-> "service_hard_delete", result |-> "ok"]
    /\ DOMAIN campaigns # {1, 2}

\* the requests for the detail page of this scenario
PageRequests == CampaignIds \X RequestedFilters

C27_ReadThrough ==
    [][\A r \in PageRequests :
          AdCampaignDetailStatisticView(r[1], r[2]) =>
             LET key == cache_key(r[1], r[2])
                 missing == key \notin DOMAIN cache \/ cache[key].age >= CACHE_TIMEOUT
             IN  /\ missing => /\ page'.source = "computed"
                                /\ page'.data = ViewComputedData(r[1], r[2])
                                /\ cache'[key] = [data |-> page'.data, age |-> 0]
                 /\ ~missing => /\ page'.source = "cache"
                                 /\ page'.data = cache[key].data
                                 /\ cache[key].age < 60 * 15
                 /\ since_write > CACHE_TIMEOUT =>
                       page'.data = ViewComputedData(r[1], r[2])
                 /\ (~missing /\ key \in fresh) =>
                       page'.data = ViewComputedData(r[1], r[2])]_vars

\* a request has just been answered from the cache with a result from
\* before the last write, TickSeconds after that write
C27_Witness ==
    /\ last.op = "detail_statistic"
    /\ page.source = "cache"
    /\ page.campaign \in AdCampaignObjects
    /\ page.data # ViewComputedData(page.campaign, page.status)
    /\ since_write = TickSeconds

\* no two non-deleted leads share an address or a non-null phone
ContactsUnique ==
    \A l1, l2 \in LeadObjects :
        l1 # l2 => /\ leads[l1].email # leads[l2].email
                   /\ leads[l1].phone = NullPhone \/ leads[l1].phone # leads[l2].phone

\* C24: after any sequence of lead creations, edits, soft deletions and
\* restorations no two non-deleted leads share the same email and no two
\* share the same non-null phone (a soft-deleted lead may share either
\* with another lead); a creation, edit or restoration that would break
\* this fails and leaves the store unchanged.
C24_ContactsUniqueAmongLive ==
    /\ ContactsUnique
    /\ [][/\ ContactsUnique'
          /\ last'.result # "ok" => Store' = Store
          /\ \A l \in LeadIds :
                (LeadRestore(l) /\ LeadUniqueViolation(l, restore(leads[l])))
                => last'.result = "integrity_error" /\ Store' = Store]_vars

\* the restoration of a soft-deleted lead that shares its address with a
\* non-deleted one has just failed
C24_Witness ==
    /\ last = [op |-> "lead_restore", result |-> "integrity_error"]
    /\ \E l1 \in LeadObjects, l2 \in LeadIds \ LeadObjects :
          leads[l1].email = leads[l2].email

\* each contract backs at most one entry, soft-deleted entries counted
OneEntryPerContract ==
    \A k \in ContractIds : Cardinality({e \in EntryIds : history[e].contract = k}) <= 1

\* C25 (as stated): in every reachable state each contract backs at most
\* one entry, soft-deleted entries counted, and once a contract has been
\* used in an activation every later activation with it is rejected, also
\* after the entry it backs has been soft-deleted.
C25_AsStated ==
    /\ OneEntryPerContract
    /\ [][/\ OneEntryPerContract'
          /\ \A l \in LeadIds, k \in ContractIds :
                (ActivateCustomer(l, k) /\ k \in used)
                => last'.result # "ok" /\ history' = history /\ leads' = leads]_vars

\* C25 (amended): in every reachable state each contract backs at most one
\* entry, soft-deleted entries counted, and an activation with a contract
\* that an entry references, soft-deleted or not, is rejected and changes
\* nothing; a contract that was used in an activation and is referenced by
\* no entry any more (the entry has been re-linked to another contract) can
\* be used again.
C25_Amended ==
    /\ OneEntryPerContract
    /\ [][/\ OneEntryPerContract'
          /\ \A l \in LeadIds, k \in ContractIds :
                (ActivateCustomer(l, k) /\ \E e \in EntryIds : history[e].contract = k)
                => last'.result # "ok" /\ history' = history /\ leads' = leads
          /\ \A l \in LeadIds, k \in ContractIds :
                (ActivateCustomer(l, k) /\ last'.result = "ok" /\ k \in used)
                => \A e \in EntryIds : history[e].contract # k]_vars

\* an activation has just been rejected because its contract backs a
\* soft-deleted entry
C25_Witness ==
    /\ last = [op |-> "activate", result |-> "contract_taken"]
    /\ \E e \in EntryIds : history[e].is_deleted
    /\ \A e \in EntryIds : history[e].is_deleted

\* the non-deleted entries of the lead of entry e, e itself left out
OtherActiveEntries(e) ==
    {o \in ActiveClientObjects \ {e} :
        history[o].potential_client = history[e].potential_client}

\* C26: when an entry of a CONVERTED lead is soft-deleted, the lead's
\* status reverts to IN_PROGRESS only if the lead has no other non-deleted
\* entry; while another non-deleted entry of the lead remains, the lead
\* stays CONVERTED.
C26_RevertOnlyWithoutOtherEntry ==
    [][\A e \in EntryIds :
          (/\ DeactivateClient(e)
           /\ leads[history[e].potential_client].status = "CONVERTED")
          => leads'[history[e].potential_client].status =
                IF OtherActiveEntries(e) # {} THEN "CONVERTED" ELSE "IN_PROGRESS"]_vars

\* C29: restore() of a soft-deleted entry changes only that entry's
\* is_deleted and deleted_at; the lead's status is left as it is, so that
\* a lead that was CONVERTED, after deactivate followed by restore, has a
\* non-deleted entry while its status is IN_PROGRESS.
C29_RestoreLeavesStatus ==
    [][\A e \in EntryIds :
          (ActiveClientRestore(e) /\ history[e].is_deleted)
          => /\ leads' = leads
             /\ DOMAIN history' = DOMAIN history
             /\ \A o \in DOMAIN history : o # e => history'[o] = history[o]
             /\ history'[e].potential_client = history[e].potential_client
             /\ history'[e].contract = history[e].contract
             /\ ~history'[e].is_deleted
             /\ history'[e].deleted_at = NullTime
             /\ UNCHANGED <<services, campaigns, contracts>>
             /\ (last.op = "deactivate" /\ history[e].deleted_at = Now
                   /\ leads[history[e].potential_client].status = "IN_PROGRESS")
                => leads'[history[e].potential_client].status = "IN_PROGRESS"]_vars

\* lead 1 was activated, deactivated, and its entry has just been restored:
\* the entry is non-deleted and the lead is IN_PROGRESS
C29_Witness ==
    /\ last = [op |-> "entry_restore", result |-> "ok"]
    /\ Len(history) = 1
    /\ ~history[1].is_deleted
    /\ history[1].deleted_at = NullTime
    /\ leads[history[1].potential_client].status = "IN_PROGRESS"

\* the non-deleted entries of lead l
ActiveEntriesOf(l) == {e \in ActiveClientObjects : history[e].potential_client = l}

\* C30: in every state reached from leads without history by activation
\* and soft deletion of history entries only, a lead is CONVERTED if and
\* only if it has exactly one non-deleted entry, and a lead that is not
\* CONVERTED has none.
C30_ConvertedIffOneActiveEntry ==
    \A l \in LeadIds :
        /\ leads[l].status = "CONVERTED" <=> Cardinality(ActiveEntriesOf(l)) = 1
        /\ leads[l].status # "CONVERTED" => ActiveEntriesOf(l) = {}

\* a lead has been activated, deactivated and activated again: it is
\* CONVERTED with one non-deleted entry next to a soft-deleted one
C30_Witness ==
    /\ last = [op |-> "activate", result |-> "ok"]
    /\ \E l \in LeadIds :
          /\ leads[l].status = "CONVERTED"
          /\ Cardinality(ActiveEntriesOf(l)) = 1
          /\ \E e \in EntryIds : history[e].potential_client = l /\ history[e].is_deleted
    /\ \E l \in LeadIds : leads[l].status = "NEW"

\* C28: the deletion-blocking check reads the dependents and then decides,
\* without isolation: the soft delete that follows a passed check is
\* written whatever has been inserted since, and the insert of a validated
\* lead is written whatever has been deleted since; so when a delete
\* request and a lead-creating request for one campaign run concurrently,
\* both can succeed and leave a lead referencing the deleted campaign.
C28_CheckThenActUnisolated ==
    [][\A w \in Workers :
          /\ DeleteRequestSave(w)
                => /\ campaigns'[procs[w].campaign].is_deleted
                   /\ procs'[w].result = "ok"
                   /\ leads' = leads
          /\ CreateRequestSave(w)
                => /\ Len(leads') = Len(leads) + 1
                   /\ leads'[Len(leads')].ad_campaign = procs[w].campaign
                   /\ procs'[w].result = "ok"
                   /\ campaigns' = campaigns]_vars

\* a delete request and a lead-creating request for campaign 1 have both
\* succeeded, the delete having found no dependent: the one lead in the
\* table references the soft-deleted campaign
C28_Witness ==
    /\ \E w \in Workers, v \in Workers :
          /\ procs[w] = [pc |-> "done", path |-> "campaign_delete", campaign |-> 1,
                         result |-> "ok"]
          /\ procs[v] = [pc |-> "done", path |-> "lead_create", campaign |-> 1,
                         result |-> "ok"]
    /\ campaigns[1].is_deleted
    /\ Len(leads) = 1
    /\ leads[1].ad_campaign = 1
    /\ ~leads[1].is_deleted

====
